---- MODULE Spec2Model ----
(***************************************************************************)
(* The OpenGL 3.3 back end of simple2d (src/gl3.c): the two shader         *)
(* programs, the orthographic projection, and the triangle and textured    *)
(* quad draws, over a model of the part of the GL context they touch.      *)
(***************************************************************************)
EXTENDS Integers, Sequences, FiniteSets, TLC

VARIABLES shaderProgram, texShaderProgram, S2D_GL_orthoMatrix, gl, log, ret,
          call, driver, inits, nCalls

vars == <<shaderProgram, texShaderProgram, S2D_GL_orthoMatrix, gl, log, ret,
          call, driver, inits, nCalls>>

\* How many times gl3_init may be called in one run.
MaxInits == 2

\* How many calls other than gl3_init one run makes.
MaxCalls == 3

GL_FALSE == 0
GL_TRUE == 1

\* ------------------------------------------------------------------------
\* C numbers: int is 32 bits wide, GLfloat is an IEEE single.

INT_MAX == 2147483647
INT_MIN == (-INT_MAX) - 1

Abs(i) == IF i < 0 THEN -i ELSE i

\* The signed addition a + b of two ints: the sum when it is representable;
\* otherwise the behaviour is undefined, and the outcomes are the
\* two's-complement wrap-around or any other int.
IntAdd(a, b) ==
    IF b > 0 /\ a > INT_MAX - b
      THEN {a - INT_MAX + b - 1 + INT_MIN, 0}
      ELSE IF b < 0 /\ a < INT_MIN - b
        THEN {a + INT_MAX + b + 1 + INT_MAX + 1, 0}
        ELSE {a + b}

\* A GLfloat whose value is an integer is <<m, e>>, the value m * 2^e, with
\* |m| < 2^24 (the 24-bit significand) and e = 0 unless |m| >= 2^23.
FloatExp(a) == CHOOSE e \in 1..7 : a \div 2^e < 2^24 /\ a \div 2^(e - 1) >= 2^24

\* The conversion (GLfloat)i of an int: exact up to 2^24 in magnitude, rounded
\* to the nearest significand (ties to even) above it.
ToGLfloat(i) ==
    IF i = INT_MIN THEN <<-(2^23), 8>>
    ELSE IF Abs(i) < 2^24 THEN <<i, 0>>
    ELSE LET a == Abs(i)
             s == IF i < 0 THEN -1 ELSE 1
             e == FloatExp(a)
             ulp == 2^e
             q == a \div ulp
             r == a % ulp
             up == r > ulp \div 2 \/ (r = ulp \div 2 /\ q % 2 = 1)
             qr == IF up THEN q + 1 ELSE q
         IN  IF qr = 2^24 THEN <<s * 2^23, e + 1>> ELSE <<s * qr, e>>

\* The GLfloat quotient n / d of a float constant n and a GLfloat d, kept as
\* the pair of its operands.
FloatDiv(n, d) == [num |-> n, den |-> d]

\* A float literal.
FloatLit(n) == ToGLfloat(n)
MatLit(n) == FloatDiv(n, FloatLit(1))

\* ------------------------------------------------------------------------
\* The GL context, as far as gl3.c drives it.  Object names are handed out
\* from counters; name 0 is never an object.

\* The three shader sources of gl3_init.
ShaderSources == {"vertexSource", "fragmentSource", "texFragmentSource"}

\* The two glCreateProgram sites of gl3_init.
ProgramSites == {"flat", "tex"}

NoMatrix == <<>>

GLInit ==
    [ blend     |-> FALSE,
      viewport  |-> <<0, 0, 0, 0>>,
      vaos      |-> {},
      vao       |-> 0,
      buffers   |-> {},
      arrayBuf  |-> 0,
      elemBuf   |-> 0,
      bufData   |-> <<>>,
      objs      |-> 0,
      shaders   |-> <<>>,
      flagged   |-> {},
      programs  |-> <<>>,
      program   |-> 0,
      texture   |-> 0,
      attribs   |-> {},
      draws     |-> <<>>,
      calls     |-> <<>> ]

\* One entry of the command stream: the GL entry point and its object.
Called(g, fn, a) == [g EXCEPT !.calls = Append(@, [fn |-> fn, a |-> a])]

IsProgram(g, p) == p \in DOMAIN g.programs
IsShader(g, s) == s \in DOMAIN g.shaders
IsLinked(g, p) == IsProgram(g, p) /\ g.programs[p].linked

\* Whether the vertex shader, which declares u_mvpMatrix and the three
\* vertex attributes, is part of linked program p.
HasVertexStage(g, p) ==
    /\ IsLinked(g, p)
    /\ \E s \in g.programs[p].attached : g.shaders[s] = "vertexSource"

glEnableBlend(g) == Called([g EXCEPT !.blend = TRUE], "glEnable", 0)

glViewport(g, w, h) ==
    Called(IF w >= 0 /\ h >= 0 THEN [g EXCEPT !.viewport = <<0, 0, w, h>>] ELSE g,
           "glViewport", 0)

NewVao(g) == Cardinality(g.vaos) + 1
glGenVertexArray(g) == Called([g EXCEPT !.vaos = @ \cup {NewVao(g)}], "glGenVertexArrays", NewVao(g))
glBindVertexArray(g, a) ==
    Called(IF a \in g.vaos THEN [g EXCEPT !.vao = a] ELSE g, "glBindVertexArray", a)

NewBuffer(g) == Cardinality(g.buffers) + 1
glGenBuffer(g) == Called([g EXCEPT !.buffers = @ \cup {NewBuffer(g)}], "glGenBuffers", NewBuffer(g))

\* Binding a generated name creates the buffer object, with an empty store.
WithStore(g, b) ==
    IF b \in DOMAIN g.bufData THEN g.bufData ELSE (b :> <<>>) @@ g.bufData
glBindArrayBuffer(g, b) ==
    Called(IF b \in g.buffers THEN [g EXCEPT !.arrayBuf = b, !.bufData = WithStore(g, b)] ELSE g,
           "glBindBuffer(GL_ARRAY_BUFFER)", b)
glBindElementBuffer(g, b) ==
    Called(IF b \in g.buffers THEN [g EXCEPT !.elemBuf = b, !.bufData = WithStore(g, b)] ELSE g,
           "glBindBuffer(GL_ELEMENT_ARRAY_BUFFER)", b)

\* glBufferData replaces the store of the buffer bound to the target; with
\* no buffer bound it is an error and changes nothing.
glArrayBufferData(g, data) ==
    Called(IF g.arrayBuf # 0 THEN [g EXCEPT !.bufData[g.arrayBuf] = data] ELSE g,
           "glBufferData(GL_ARRAY_BUFFER)", g.arrayBuf)
glElementBufferData(g, data) ==
    Called(IF g.elemBuf # 0 THEN [g EXCEPT !.bufData[g.elemBuf] = data] ELSE g,
           "glBufferData(GL_ELEMENT_ARRAY_BUFFER)", g.elemBuf)

\* Shader and program objects share one name space.
NewObject(g) == g.objs + 1

\* glCreateProgram: a fresh program object, or 0 when the driver refuses.
CreatedProgram(g, ok) == IF ok THEN NewObject(g) ELSE 0
glCreateProgram(g, ok, site) ==
    Called(IF ok
             THEN [g EXCEPT !.objs = NewObject(g),
                            !.programs = (NewObject(g) :>
                                [site |-> site, attached |-> {}, linked |-> FALSE,
                                 linkCalled |-> FALSE, fragData |-> FALSE,
                                 mvp |-> NoMatrix]) @@ @]
             ELSE g,
           "glCreateProgram", CreatedProgram(g, ok))

glAttachShader(g, p, s) ==
    Called(IF IsProgram(g, p) /\ IsShader(g, s)
             THEN [g EXCEPT !.programs[p].attached = @ \cup {s}]
             ELSE g,
           "glAttachShader", p)

glBindFragDataLocation(g, p) ==
    Called(IF IsProgram(g, p) THEN [g EXCEPT !.programs[p].fragData = TRUE] ELSE g,
           "glBindFragDataLocation", p)

\* glLinkProgram: the link status is the driver's verdict on the program
\* built at this site; a relink resets the uniforms.
glLinkProgram(g, p, drv) ==
    Called(IF IsProgram(g, p)
             THEN [g EXCEPT !.programs[p].linked = (g.programs[p].site \in drv.links),
                            !.programs[p].linkCalled = TRUE,
                            !.programs[p].mvp = NoMatrix]
             ELSE g,
           "glLinkProgram", p)

\* glGetProgramiv(program, GL_LINK_STATUS, &linked)
LinkStatus(g, p) == IF IsLinked(g, p) THEN GL_TRUE ELSE GL_FALSE
glGetProgramiv(g, p) == Called(g, "glGetProgramiv", p)

\* glUseProgram installs a linked program (or none, for 0); for any other
\* name it raises an error and leaves the current program in place.
glUseProgram(g, p) ==
    Called(IF p = 0 \/ IsLinked(g, p) THEN [g EXCEPT !.program = p] ELSE g,
           "glUseProgram", p)

\* glGetUniformLocation(p, "u_mvpMatrix"): -1 unless p is linked and the
\* uniform is active in it.
UniformLocation(g, p) == IF HasVertexStage(g, p) THEN 0 ELSE -1
glGetUniformLocation(g, p) == Called(g, "glGetUniformLocation", p)

\* glUniformMatrix4fv(loc, 1, GL_FALSE, m) writes the uniform of the current
\* program; location -1 is silently ignored.
glUniformMatrix4fv(g, loc, m) ==
    Called(IF loc = 0 /\ HasVertexStage(g, g.program)
             THEN [g EXCEPT !.programs[g.program].mvp = m]
             ELSE g,
           "glUniformMatrix4fv", g.program)

\* glGetAttribLocation(p, name): -1 unless p is linked and has the attribute.
AttribNames == <<"position", "color", "texcoord">>
AttribLocation(g, p, name) ==
    IF HasVertexStage(g, p)
      THEN (CHOOSE i \in 1..3 : AttribNames[i] = name) - 1
      ELSE -1
glGetAttribLocation(g, p) == Called(g, "glGetAttribLocation", p)

\* glVertexAttribPointer and glEnableVertexAttribArray on one attribute of
\* the bound vertex array; an index of -1 is out of range and is rejected.
glVertexAttribPointer(g, loc, size, stride, offset) ==
    Called(IF loc >= 0
             THEN [g EXCEPT !.attribs = {a \in @ : a.loc # loc \/ a.vao # g.vao} \cup
                      {[vao |-> g.vao, loc |-> loc, size |-> size, stride |-> stride,
                        offset |-> offset, enabled |-> FALSE]}]
             ELSE g,
           "glVertexAttribPointer", loc)
glEnableVertexAttribArray(g, loc) ==
    Called(IF loc >= 0
             THEN [g EXCEPT !.attribs =
                      {IF a.loc = loc /\ a.vao = g.vao THEN [a EXCEPT !.enabled = TRUE] ELSE a
                         : a \in @}]
             ELSE g,
           "glEnableVertexAttribArray", loc)

\* glDeleteShader: 0 is ignored; a shader attached to a program is only
\* flagged for deletion, any other is deleted at once.
IsAttached(g, s) == \E p \in DOMAIN g.programs : s \in g.programs[p].attached
glDeleteShader(g, s) ==
    Called(IF ~IsShader(g, s) THEN g
           ELSE IF IsAttached(g, s) THEN [g EXCEPT !.flagged = @ \cup {s}]
           ELSE [g EXCEPT !.shaders = [t \in DOMAIN @ \ {s} |-> @[t]]],
           "glDeleteShader", s)

glBindTexture(g, t) == Called([g EXCEPT !.texture = t], "glBindTexture", t)

\* A draw call reads the current program, the bound stores and the bound
\* texture; it is recorded with what it read.
Drawn(g, kind, count) ==
    [kind |-> kind, count |-> count, program |-> g.program,
     vertices |-> IF g.arrayBuf # 0 THEN g.bufData[g.arrayBuf] ELSE <<>>,
     indices |-> IF kind = "elements" /\ g.elemBuf # 0 THEN g.bufData[g.elemBuf] ELSE <<>>,
     texture |-> g.texture]
glDrawArrays(g, count) ==
    Called([g EXCEPT !.draws = Append(@, Drawn(g, "arrays", count))], "glDrawArrays", 0)
glDrawElements(g, count) ==
    Called([g EXCEPT !.draws = Append(@, Drawn(g, "elements", count))], "glDrawElements", 0)

\* ------------------------------------------------------------------------
\* The module's state as one record: the two static program handles, the
\* shared projection matrix, the GL context, the log and the value last
\* returned.

World == [shaderProgram |-> shaderProgram, texShaderProgram |-> texShaderProgram,
          orthoMatrix |-> S2D_GL_orthoMatrix, gl |-> gl, log |-> log, ret |-> ret]

OnGL(w, g) == [w EXCEPT !.gl = g]
Returning(w, v) == [w EXCEPT !.ret = v]

\* S2D_Log and S2D_GL_PrintError: one line on the log.
S2D_Log(w, msg) == [w EXCEPT !.log = Append(@, msg)]
S2D_GL_PrintError(w, msg) == [w EXCEPT !.log = Append(@, msg)]

\* S2D_GL_LoadShader: the new shader object when the driver compiles the
\* source; on a compile failure the diagnostic is logged and the result is 0.
LoadedShader(w, src, drv) == IF src \in drv.compiles THEN NewObject(w.gl) ELSE 0
S2D_GL_LoadShader(w, src, drv) ==
    IF src \in drv.compiles
      THEN OnGL(w, Called([w.gl EXCEPT !.objs = NewObject(w.gl),
                                       !.shaders = (NewObject(w.gl) :> src) @@ @],
                          "glCompileShader", NewObject(w.gl)))
      ELSE S2D_Log(OnGL(w, Called(w.gl, "glCompileShader", 0)), "shader compile failed")

\* A variant that reports every program as linked.
gl3_check_linkedAlways(w, program) ==
    Returning(OnGL(w, glGetProgramiv(w.gl, program)), GL_TRUE)

\* gl3_check_linked
gl3_check_linked(w, program) ==
    LET w1 == OnGL(w, glGetProgramiv(w.gl, program))
        linked == LinkStatus(w.gl, program)
    IN  IF linked = 0
          THEN Returning(S2D_Log(w1, "GL3 shader was not linked"), GL_FALSE)
          ELSE Returning(w1, GL_TRUE)

\* The two entries gl3_set_view recomputes.
OrthoScaleX(s2d_viewport_width) == FloatDiv(2, ToGLfloat(s2d_viewport_width))
OrthoScaleY(s2d_viewport_height) == FloatDiv(-2, ToGLfloat(s2d_viewport_height))

\* A variant that scales the entries already there instead of replacing them.
SetOrthoAccumulating(m, s2d_viewport_width, s2d_viewport_height) ==
    [m EXCEPT ![0] = IF m[0].num = 0 THEN OrthoScaleX(s2d_viewport_width) ELSE @,
              ![5] = OrthoScaleY(s2d_viewport_height)]

SetOrtho(m, s2d_viewport_width, s2d_viewport_height) ==
    [m EXCEPT ![0] = OrthoScaleX(s2d_viewport_width),
              ![5] = OrthoScaleY(s2d_viewport_height)]

\* The upload of matrix m to u_mvpMatrix of program p: use the program, look
\* the uniform up, write it.  (The location passes through a GLuint and back
\* to the GLint parameter, which keeps -1.)
UploadMvp(g, p, m) ==
    LET g1 == glUseProgram(g, p)
        g2 == glGetUniformLocation(g1, p)
    IN  glUniformMatrix4fv(g2, UniformLocation(g1, p), m)

\* gl3_set_view
gl3_set_view(w, window_width, window_height, s2d_viewport_width, s2d_viewport_height) ==
    LET g1 == glViewport(w.gl, window_width, window_height)
        m  == SetOrtho(w.orthoMatrix, s2d_viewport_width, s2d_viewport_height)
        g2 == UploadMvp(g1, w.shaderProgram, m)
        g3 == UploadMvp(g2, w.texShaderProgram, m)
    IN  [w EXCEPT !.orthoMatrix = m, !.gl = g3]

\* A variant that creates the vertex array and the buffers only when none is
\* bound yet.
InitObjectsOnce(g) ==
    LET g1 == Called(glEnableBlend(g), "glBlendFunc", 0)
        g2 == glBindVertexArray(glGenVertexArray(g1), NewVao(g1))
        g3 == glBindArrayBuffer(glGenBuffer(g2), NewBuffer(g2))
    IN  IF g.vao # 0 THEN g1 ELSE glBindElementBuffer(glGenBuffer(g3), NewBuffer(g3))

\* gl3_init, lines 62-113: blending, then the vertex array, the vertex
\* buffer and the element buffer, each bound as it is created.
InitObjects(g) ==
    LET g1 == Called(glEnableBlend(g), "glBlendFunc", 0)
        g2 == glBindVertexArray(glGenVertexArray(g1), NewVao(g1))
        g3 == glBindArrayBuffer(glGenBuffer(g2), NewBuffer(g2))
    IN  glBindElementBuffer(glGenBuffer(g3), NewBuffer(g3))

\* One vertex attribute of program p: query, describe, enable.
VertexAttrib(g, p, name, size, offset) ==
    LET loc == AttribLocation(g, p, name)
        g1 == glGetAttribLocation(g, p)
        g2 == glVertexAttribPointer(g1, loc, size, 8, offset)
    IN  glEnableVertexAttribArray(g2, loc)

\* gl3_init, lines 131-150: build the flat program and lay out its vertices.
InitFlatProgram(w, vertexShader, fragmentShader, drv) ==
    LET p  == w.shaderProgram
        g1 == glAttachShader(w.gl, p, vertexShader)
        g2 == glAttachShader(g1, p, fragmentShader)
        g3 == glBindFragDataLocation(g2, p)
        g4 == glLinkProgram(g3, p, drv)
        w1 == gl3_check_linked(OnGL(w, g4), p)
        g5 == VertexAttrib(w1.gl, p, "position", 2, 0)
        g6 == VertexAttrib(g5, p, "color", 4, 2)
    IN  OnGL(w1, g6)

\* gl3_init, lines 161-181: build the textured program and lay out its
\* vertices.
InitTexProgram(w, vertexShader, texFragmentShader, drv) ==
    LET p  == w.texShaderProgram
        g1 == glAttachShader(w.gl, p, vertexShader)
        g2 == glAttachShader(g1, p, texFragmentShader)
        g3 == glBindFragDataLocation(g2, p)
        g4 == glLinkProgram(g3, p, drv)
        w1 == gl3_check_linked(OnGL(w, g4), p)
        g5 == VertexAttrib(w1.gl, p, "position", 2, 0)
        g6 == VertexAttrib(g5, p, "color", 4, 2)
        g7 == VertexAttrib(g6, p, "texcoord", 2, 6)
    IN  OnGL(w1, g7)

\* A variant that cleans the shaders up before it sets the view.
InitFinishDeleteFirst(w, width, height, vertexShader, fragmentShader, texFragmentShader) ==
    LET g1 == glDeleteShader(w.gl, vertexShader)
        g2 == glDeleteShader(g1, fragmentShader)
        g3 == glDeleteShader(g2, texFragmentShader)
    IN  Returning(gl3_set_view(OnGL(w, g3), width, height, width, height), GL_TRUE)

\* gl3_init, lines 184-191: the initial view, then the shader clean-up.
InitFinish(w, width, height, vertexShader, fragmentShader, texFragmentShader) ==
    LET w1 == gl3_set_view(w, width, height, width, height)
        g1 == glDeleteShader(w1.gl, vertexShader)
        g2 == glDeleteShader(g1, fragmentShader)
        g3 == glDeleteShader(g2, texFragmentShader)
    IN  Returning(OnGL(w1, g3), GL_TRUE)

\* A variant that undoes the blending set-up before it reports the failure.
ProgramCreateFailedRollback(w) ==
    Returning(S2D_GL_PrintError(OnGL(w, Called([w.gl EXCEPT !.blend = FALSE], "glDisable", 0)),
                                "Failed to create shader program"), GL_FALSE)

\* gl3_init, lines 124-127 and 156-159: glCreateProgram gave 0.
ProgramCreateFailed(w) ==
    Returning(S2D_GL_PrintError(w, "Failed to create shader program"), GL_FALSE)

\* gl3_init.  drv is the driver's compiler and linker; flatOk and texOk say
\* whether each glCreateProgram call yields an object.
gl3_init(w, width, height, drv, flatOk, texOk) ==
    LET w1 == OnGL(w, InitObjects(w.gl))
        vertexShader      == LoadedShader(w1, "vertexSource", drv)
        w2 == S2D_GL_LoadShader(w1, "vertexSource", drv)
        fragmentShader    == LoadedShader(w2, "fragmentSource", drv)
        w3 == S2D_GL_LoadShader(w2, "fragmentSource", drv)
        texFragmentShader == LoadedShader(w3, "texFragmentSource", drv)
        w4 == S2D_GL_LoadShader(w3, "texFragmentSource", drv)
        w5 == [w4 EXCEPT !.shaderProgram = CreatedProgram(w4.gl, flatOk),
                         !.gl = glCreateProgram(w4.gl, flatOk, "flat")]
    IN  IF w5.shaderProgram = 0
          THEN ProgramCreateFailed(w5)
          ELSE
            LET w6 == InitFlatProgram(w5, vertexShader, fragmentShader, drv)
                w7 == [w6 EXCEPT !.texShaderProgram = CreatedProgram(w6.gl, texOk),
                                 !.gl = glCreateProgram(w6.gl, texOk, "tex")]
            IN  IF w7.texShaderProgram = 0
                  THEN ProgramCreateFailed(w7)
                  ELSE InitFinish(InitTexProgram(w7, vertexShader, texFragmentShader, drv),
                                  width, height,
                                  vertexShader, fragmentShader, texFragmentShader)

\* The index array shared by every textured quad.
elements == <<0, 1, 2, 2, 3, 0>>

\* The 8 floats of one vertex: position, colour, texture coordinate.
Vertex(x, y, c, u, v) == <<x, y, c[1], c[2], c[3], c[4], u, v>>

\* gl3_draw_triangle: t holds the three corners, each with x, y and colour c.
TriangleVertices(t) ==
    Vertex(t[1].x, t[1].y, t[1].c, FloatLit(0), FloatLit(0)) \o
    Vertex(t[2].x, t[2].y, t[2].c, FloatLit(0), FloatLit(0)) \o
    Vertex(t[3].x, t[3].y, t[3].c, FloatLit(0), FloatLit(0))

gl3_draw_triangle(w, t) ==
    LET g1 == glUseProgram(w.gl, w.shaderProgram)
        g2 == glArrayBufferData(g1, TriangleVertices(t))
    IN  OnGL(w, glDrawArrays(g2, 3))

\* The vertex array of gl3_draw_texture, with xw and yh the values of the
\* int expressions x + w and y + h.
QuadVertices(x, y, xw, yh, tint) ==
    Vertex(ToGLfloat(x),  ToGLfloat(y),  tint, FloatLit(0), FloatLit(0)) \o
    Vertex(ToGLfloat(xw), ToGLfloat(y),  tint, FloatLit(1), FloatLit(0)) \o
    Vertex(ToGLfloat(xw), ToGLfloat(yh), tint, FloatLit(1), FloatLit(1)) \o
    Vertex(ToGLfloat(x),  ToGLfloat(yh), tint, FloatLit(0), FloatLit(1))

DrawQuad(w, vertices, texture_id) ==
    LET g1 == glUseProgram(w.gl, w.texShaderProgram)
        g2 == glBindTexture(g1, texture_id)
        g3 == glArrayBufferData(g2, vertices)
        g4 == glElementBufferData(g3, elements)
    IN  OnGL(w, glDrawElements(g4, 6))

\* gl3_draw_texture: every world the call can leave, one for each outcome of
\* the two int additions.
gl3_draw_texture(w, x, y, wd, h, tint, texture_id) ==
    { DrawQuad(w, QuadVertices(x, y, xw, yh, tint), texture_id) :
        xw \in IntAdd(x, wd), yh \in IntAdd(y, h) }

White == <<FloatLit(1), FloatLit(1), FloatLit(1), FloatLit(1)>>

\* A variant that passes the width for the height too.
gl3_draw_imageSquare(w, img) ==
    gl3_draw_texture(w, img.x, img.y, img.w, img.w, White, img.texture_id)

\* gl3_draw_image
gl3_draw_image(w, img) ==
    gl3_draw_texture(w, img.x, img.y, img.w, img.h, White, img.texture_id)

\* gl3_draw_text
gl3_draw_text(w, txt) ==
    gl3_draw_texture(w, txt.x, txt.y, txt.w, txt.h, txt.color, txt.texture_id)

\* ------------------------------------------------------------------------
\* The callers' inputs.

\* S2D_GL_orthoMatrix before the first gl3_set_view: sixteen floats indexed
\* as in C, here two candidate contents.
ZeroMatrix == [i \in 0..15 |-> MatLit(0)]
OrthoMatrices ==
    { [ZeroMatrix EXCEPT ![12] = MatLit(-1), ![13] = MatLit(1),
                         ![14] = MatLit(-1), ![15] = MatLit(1)],
      [ZeroMatrix EXCEPT ![0] = MatLit(1), ![5] = MatLit(1),
                         ![10] = MatLit(1), ![15] = MatLit(1)] }

\* A driver: the sources its compiler accepts and the programs its linker
\* accepts.  One that accepts everything, one for each single rejection, and
\* one whose linker rejects both programs.
Driver(compiles, links) == [compiles |-> compiles, links |-> links]
Drivers ==
    { Driver(ShaderSources, ProgramSites) } \cup
    { Driver(ShaderSources \ {src}, ProgramSites) : src \in ShaderSources } \cup
    { Driver(ShaderSources, links) : links \in (SUBSET ProgramSites) \ {ProgramSites} }

\* The window size gl3_init is given, and the sizes of later resizes.
InitSizes == {<<800, 600>>}
WindowSizes == {<<640, 480>>, <<1280, 960>>}
ViewportSizes == {<<640, 480>>, <<320, 200>>}

Red == <<FloatLit(1), FloatLit(0), FloatLit(0), FloatLit(1)>>
Corner(x, y, c) == [x |-> FloatLit(x), y |-> FloatLit(y), c |-> c]
Triangles ==
    { <<Corner(0, 0, Red), Corner(100, 0, White), Corner(50, 80, Red)>>,
      <<Corner(5, 6, White), Corner(7, 8, White), Corner(9, 10, Red)>> }

Images ==
    { [x |-> 10, y |-> 20, w |-> 30, h |-> 40, texture_id |-> 1],
      [x |-> INT_MAX, y |-> 16777217, w |-> 1, h |-> 2, texture_id |-> 2] }

Texts ==
    { [x |-> 10, y |-> 20, w |-> 30, h |-> 40, color |-> Red, texture_id |-> 3],
      [x |-> 0, y |-> INT_MAX - 1, w |-> 8, h |-> 1, color |-> White, texture_id |-> 4] }

\* ------------------------------------------------------------------------
\* The state machine: one action per entry point, each a whole call.

Init ==
    /\ shaderProgram = 0
    /\ texShaderProgram = 0
    /\ S2D_GL_orthoMatrix \in OrthoMatrices
    /\ gl = GLInit
    /\ log = <<>>
    /\ ret = GL_FALSE
    /\ call = [op |-> "none"]
    /\ driver \in Drivers
    /\ inits = <<>>
    /\ nCalls = 0

\* The world a call starts from: the command stream, the draws and the log
\* record one call at a time.
Begin == [World EXCEPT !.gl.calls = <<>>, !.gl.draws = <<>>, !.log = <<>>]

Commit(w) ==
    /\ shaderProgram' = w.shaderProgram
    /\ texShaderProgram' = w.texShaderProgram
    /\ S2D_GL_orthoMatrix' = w.orthoMatrix
    /\ gl' = w.gl
    /\ log' = w.log
    /\ ret' = w.ret

\* The window has been created: the latest gl3_init reported success.
Initialised == inits # <<>> /\ inits[Len(inits)] = GL_TRUE

CallInit ==
    /\ Len(inits) < MaxInits
    /\ \E size \in InitSizes, flatOk \in BOOLEAN, texOk \in BOOLEAN :
         LET w == gl3_init(Begin, size[1], size[2], driver, flatOk, texOk)
         IN  /\ Commit(w)
             /\ inits' = Append(inits, w.ret)
             /\ call' = [op |-> "gl3_init", width |-> size[1], height |-> size[2],
                         flatOk |-> flatOk, texOk |-> texOk]
    /\ UNCHANGED <<driver, nCalls>>

CallSetView ==
    /\ Initialised
    /\ nCalls < MaxCalls
    /\ nCalls' = nCalls + 1
    /\ \E win \in WindowSizes, view \in ViewportSizes :
         /\ Commit(gl3_set_view(Begin, win[1], win[2], view[1], view[2]))
         /\ call' = [op |-> "gl3_set_view", window_width |-> win[1],
                     window_height |-> win[2], s2d_viewport_width |-> view[1],
                     s2d_viewport_height |-> view[2]]
    /\ UNCHANGED <<driver, inits>>

CallCheckLinked ==
    /\ Initialised
    /\ nCalls < MaxCalls
    /\ nCalls' = nCalls + 1
    /\ \E program \in {shaderProgram, texShaderProgram} :
         /\ Commit(gl3_check_linked(Begin, program))
         /\ call' = [op |-> "gl3_check_linked", program |-> program]
    /\ UNCHANGED <<driver, inits>>

CallDrawTriangle ==
    /\ Initialised
    /\ nCalls < MaxCalls
    /\ nCalls' = nCalls + 1
    /\ \E t \in Triangles :
         /\ Commit(gl3_draw_triangle(Begin, t))
         /\ call' = [op |-> "gl3_draw_triangle", t |-> t]
    /\ UNCHANGED <<driver, inits>>

CallDrawImage ==
    /\ Initialised
    /\ nCalls < MaxCalls
    /\ nCalls' = nCalls + 1
    /\ \E img \in Images : \E w \in gl3_draw_image(Begin, img) :
         /\ Commit(w)
         /\ call' = [op |-> "gl3_draw_image", img |-> img]
    /\ UNCHANGED <<driver, inits>>

CallDrawText ==
    /\ Initialised
    /\ nCalls < MaxCalls
    /\ nCalls' = nCalls + 1
    /\ \E txt \in Texts : \E w \in gl3_draw_text(Begin, txt) :
         /\ Commit(w)
         /\ call' = [op |-> "gl3_draw_text", txt |-> txt]
    /\ UNCHANGED <<driver, inits>>

Next ==
    \/ CallInit
    \/ CallSetView
    \/ CallCheckLinked
    \/ CallDrawTriangle
    \/ CallDrawImage
    \/ CallDrawText

Spec == Init /\ [][Next]_vars

\* ------------------------------------------------------------------------
\* Properties.

\* How often the latest call issued GL entry point fn.
CallCount(fn) == Cardinality({i \in 1..Len(gl.calls) : gl.calls[i].fn = fn})

\* C1: a gl3_set_view call with positive viewport width and height leaves
\* entry [0] of the projection equal to 2/viewportWidth and entry [5] equal to
\* -2/viewportHeight of that call alone, sets the GL viewport to
\* (0, 0, windowWidth, windowHeight) of that call, and leaves the other 14
\* entries as they were before the call.
C1_SetViewProjection ==
    [][(/\ call'.op = "gl3_set_view"
        /\ call'.s2d_viewport_width > 0
        /\ call'.s2d_viewport_height > 0)
       => /\ S2D_GL_orthoMatrix'[0] = FloatDiv(2, ToGLfloat(call'.s2d_viewport_width))
          /\ S2D_GL_orthoMatrix'[5] = FloatDiv(-2, ToGLfloat(call'.s2d_viewport_height))
          /\ gl'.viewport = <<0, 0, call'.window_width, call'.window_height>>
          /\ \A i \in (0..15) \ {0, 5} : S2D_GL_orthoMatrix'[i] = S2D_GL_orthoMatrix[i]]_vars

\* A resize to a 320x200 viewport in a 1280x960 window, made after another
\* call, has replaced the scale of the 800x600 initialisation.
C1_Witness ==
    /\ call.op = "gl3_set_view"
    /\ nCalls >= 2
    /\ call.s2d_viewport_width = 320
    /\ call.window_width = 1280
    /\ S2D_GL_orthoMatrix[0] = [num |-> 2, den |-> <<320, 0>>]
    /\ S2D_GL_orthoMatrix[5] = [num |-> -2, den |-> <<200, 0>>]
    /\ gl.viewport = <<0, 0, 1280, 960>>

\* C2: between calls, once gl3_init has succeeded, the u_mvpMatrix uniform of
\* the flat program and of the textured program both equal the host
\* projection matrix.
C2_UniformsEqualMatrix ==
    Initialised =>
      /\ IsProgram(gl, shaderProgram)
      /\ IsProgram(gl, texShaderProgram)
      /\ gl.programs[shaderProgram].mvp = S2D_GL_orthoMatrix
      /\ gl.programs[texShaderProgram].mvp = S2D_GL_orthoMatrix

\* C3: when either glCreateProgram gives 0, gl3_init logs the error and
\* returns GL_FALSE there: the failed creation is the last GL call it makes
\* (no link, attribute set-up, view or shader deletion follows), and nothing
\* is rolled back: blending stays on, and the vertex array, both buffers, the
\* compiled shaders and, on the second failure, the flat program stay
\* allocated.
C3_CreateFailureStopsInit ==
    (call.op = "gl3_init" /\ (~call.flatOk \/ ~call.texOk)) =>
      /\ ret = GL_FALSE
      /\ log # <<>> /\ log[Len(log)] = "Failed to create shader program"
      /\ gl.calls[Len(gl.calls)] = [fn |-> "glCreateProgram", a |-> 0]
      /\ CallCount("glCreateProgram") = (IF call.flatOk THEN 2 ELSE 1)
      /\ CallCount("glLinkProgram") = (IF call.flatOk THEN 1 ELSE 0)
      /\ CallCount("glGetAttribLocation") = (IF call.flatOk THEN 2 ELSE 0)
      /\ CallCount("glViewport") = 0
      /\ CallCount("glUseProgram") = 0
      /\ CallCount("glUniformMatrix4fv") = 0
      /\ CallCount("glDeleteShader") = 0
      /\ gl.blend
      /\ gl.vao = Len(inits) /\ gl.vao \in gl.vaos
      /\ gl.arrayBuf = 2 * Len(inits) - 1 /\ gl.arrayBuf \in gl.buffers
      /\ gl.elemBuf = 2 * Len(inits) /\ gl.elemBuf \in gl.buffers
      /\ \A src \in driver.compiles :
           \E i \in 1..Len(gl.calls) :
             /\ gl.calls[i].fn = "glCompileShader"
             /\ IsShader(gl, gl.calls[i].a)
             /\ gl.shaders[gl.calls[i].a] = src
             /\ gl.calls[i].a \notin gl.flagged
      /\ IF call.flatOk
           THEN /\ IsProgram(gl, shaderProgram)
                /\ gl.programs[shaderProgram].site = "flat"
                /\ gl.programs[shaderProgram].linkCalled
                /\ texShaderProgram = 0
           ELSE shaderProgram = 0

\* The second creation failed: the flat program of this call is built and
\* still allocated, and the call reported failure.
C3_Witness ==
    /\ call.op = "gl3_init"
    /\ call.flatOk /\ ~call.texOk
    /\ ret = GL_FALSE
    /\ IsLinked(gl, shaderProgram)
    /\ texShaderProgram = 0
    /\ gl.blend

\* C4: a gl3_init during which a shader failed to compile reports failure.
C4_CompileFailureFailsInit ==
    (call.op = "gl3_init" /\ driver.compiles # ShaderSources) => ret = GL_FALSE

\* The call stream holds a glUseProgram of program p.
UsesProgram(p) == \E i \in 1..Len(gl.calls) : gl.calls[i] = [fn |-> "glUseProgram", a |-> p]

NotLinkedLines == {i \in 1..Len(log) : log[i] = "GL3 shader was not linked"}

\* C5: gl3_check_linked returns GL_FALSE and logs exactly when the program's
\* link status is failure, and GL_TRUE silently otherwise; gl3_init ignores
\* it: with both handles non-zero it runs to its end and returns GL_TRUE
\* whether or not either program linked, and the stored handles are the ones
\* later resize and draw calls hand to glUseProgram.
C5_LinkFailureNotFatal ==
    /\ call.op = "gl3_check_linked" =>
         IF IsLinked(gl, call.program)
           THEN ret = GL_TRUE /\ log = <<>>
           ELSE ret = GL_FALSE /\ log = <<"GL3 shader was not linked">>
    /\ (call.op = "gl3_init" /\ call.flatOk /\ call.texOk) =>
         /\ ret = GL_TRUE
         /\ IsProgram(gl, shaderProgram) /\ gl.programs[shaderProgram].site = "flat"
         /\ IsProgram(gl, texShaderProgram) /\ gl.programs[texShaderProgram].site = "tex"
         /\ CallCount("glDeleteShader") = 3
         /\ Cardinality(NotLinkedLines) =
              Cardinality({p \in {shaderProgram, texShaderProgram} : ~IsLinked(gl, p)})
    /\ call.op = "gl3_set_view" =>
         \E i, j \in 1..Len(gl.calls) :
           /\ i < j
           /\ gl.calls[i] = [fn |-> "glUseProgram", a |-> shaderProgram]
           /\ gl.calls[j] = [fn |-> "glUseProgram", a |-> texShaderProgram]
    /\ call.op = "gl3_draw_triangle" => UsesProgram(shaderProgram)
    /\ call.op \in {"gl3_draw_image", "gl3_draw_text"} => UsesProgram(texShaderProgram)

\* gl3_init has just returned GL_TRUE although the textured program did not
\* link, and the failure is on the log.
C5_Witness ==
    /\ call.op = "gl3_init"
    /\ ret = GL_TRUE
    /\ IsLinked(gl, shaderProgram)
    /\ IsProgram(gl, texShaderProgram) /\ ~IsLinked(gl, texShaderProgram)
    /\ NotLinkedLines # {}

\* The GLfloat of the exact sum a + b of two ints with b >= 0, also where the
\* sum is beyond INT_MAX.
SumToGLfloat(a, b) ==
    IF b > 0 /\ a > INT_MAX - b
      THEN LET q  == (a \div 256) + (b \div 256) + (((a % 256) + (b % 256)) \div 256)
               r  == ((a % 256) + (b % 256)) % 256
               qr == IF r > 128 \/ (r = 128 /\ q % 2 = 1) THEN q + 1 ELSE q
           IN  IF qr = 2^24 THEN <<2^23, 9>> ELSE <<qr, 8>>
      ELSE ToGLfloat(a + b)

\* The drawable and the tint of the latest gl3_draw_image or gl3_draw_text.
Drawable == IF call.op = "gl3_draw_image" THEN call.img ELSE call.txt
TintDrawn == IF call.op = "gl3_draw_image"
               THEN <<<<1, 0>>, <<1, 0>>, <<1, 0>>, <<1, 0>>>>
               ELSE call.txt.color

\* C6: a textured-quad draw uploads the 4 vertices (x,y), (x+w,y), (x+w,y+h),
\* (x,y+h) in that order, each with the tint, with texcoords (0,0), (1,0),
\* (1,1), (0,1), binds the texture, uploads the indices {0,1,2,2,3,0} and
\* issues one indexed draw of 6 indices with the textured program active.
C6_TexturedQuadDraw ==
    call.op \in {"gl3_draw_image", "gl3_draw_text"} =>
      LET d  == Drawable
          c  == TintDrawn
          x  == ToGLfloat(d.x)
          y  == ToGLfloat(d.y)
          xw == SumToGLfloat(d.x, d.w)
          yh == SumToGLfloat(d.y, d.h)
          o  == <<0, 0>>
          l  == <<1, 0>>
      IN  gl.draws =
            << [kind     |-> "elements",
                count    |-> 6,
                program  |-> texShaderProgram,
                vertices |-> << x,  y,  c[1], c[2], c[3], c[4], o, o,
                                xw, y,  c[1], c[2], c[3], c[4], l, o,
                                xw, yh, c[1], c[2], c[3], c[4], l, l,
                                x,  yh, c[1], c[2], c[3], c[4], o, l >>,
                indices  |-> <<0, 1, 2, 2, 3, 0>>,
                texture  |-> d.texture_id] >>

\* C7: a gl3_draw_triangle call uploads exactly 3 vertices of 8 floats, the
\* given position and colour with texcoord (0,0), and issues one non-indexed
\* draw of 3 vertices with the flat program active, without touching the
\* element buffer.
C7_TriangleDraw ==
    call.op = "gl3_draw_triangle" =>
      LET t == call.t
          o == <<0, 0>>
      IN  /\ gl.draws =
              << [kind     |-> "arrays",
                  count    |-> 3,
                  program  |-> shaderProgram,
                  vertices |->
                    << t[1].x, t[1].y, t[1].c[1], t[1].c[2], t[1].c[3], t[1].c[4], o, o,
                       t[2].x, t[2].y, t[2].c[1], t[2].c[2], t[2].c[3], t[2].c[4], o, o,
                       t[3].x, t[3].y, t[3].c[1], t[3].c[2], t[3].c[3], t[3].c[4], o, o >>,
                  indices  |-> <<>>,
                  texture  |-> gl.texture] >>
          /\ CallCount("glBufferData(GL_ELEMENT_ARRAY_BUFFER)") = 0
          /\ CallCount("glDrawElements") = 0

FlatPrograms == {p \in DOMAIN gl.programs : gl.programs[p].site = "flat"}
TexPrograms == {p \in DOMAIN gl.programs : gl.programs[p].site = "tex"}
Successes == {i \in 1..Len(inits) : inits[i] = GL_TRUE}

AttribSetup == <<"glGetAttribLocation", "glVertexAttribPointer", "glEnableVertexAttribArray">>
ProgramBuild == <<"glCreateProgram", "glAttachShader", "glAttachShader",
                  "glBindFragDataLocation", "glLinkProgram", "glGetProgramiv">>
MvpUpload == <<"glUseProgram", "glGetUniformLocation", "glUniformMatrix4fv">>
InitStream ==
    <<"glEnable", "glBlendFunc",
      "glGenVertexArrays", "glBindVertexArray",
      "glGenBuffers", "glBindBuffer(GL_ARRAY_BUFFER)",
      "glGenBuffers", "glBindBuffer(GL_ELEMENT_ARRAY_BUFFER)",
      "glCompileShader", "glCompileShader", "glCompileShader">>
    \o ProgramBuild \o AttribSetup \o AttribSetup
    \o ProgramBuild \o AttribSetup \o AttribSetup \o AttribSetup
    \o <<"glViewport">> \o MvpUpload \o MvpUpload
    \o <<"glDeleteShader", "glDeleteShader", "glDeleteShader">>

\* C10: a successful gl3_init makes its GL calls in the one fixed order:
\* blending; the vertex array, vertex buffer and element buffer, each bound
\* when created; the three shader compilations; the flat program created and
\* linked and only then its position and color attributes; the textured
\* program created and linked and only then its position, color and texcoord
\* attributes; gl3_set_view(width, height, width, height) on the two stored
\* handles; the three shader deletions last.
C10_InitOrder ==
    (call.op = "gl3_init" /\ ret = GL_TRUE) =>
      /\ [i \in 1..Len(gl.calls) |-> gl.calls[i].fn] = InitStream
      /\ \A i \in 12..18 \cup {21} : gl.calls[i].a = shaderProgram
      /\ \A i \in 24..30 \cup {33, 36} : gl.calls[i].a = texShaderProgram
      /\ gl.calls[40].a = shaderProgram /\ gl.calls[41].a = shaderProgram
      /\ gl.calls[43].a = texShaderProgram /\ gl.calls[44].a = texShaderProgram
      /\ shaderProgram # 0 /\ texShaderProgram # 0
      /\ gl.viewport = <<0, 0, call.width, call.height>>
      /\ S2D_GL_orthoMatrix[0] = FloatDiv(2, ToGLfloat(call.width))
      /\ S2D_GL_orthoMatrix[5] = FloatDiv(-2, ToGLfloat(call.height))
      /\ \A i \in 46..48 : gl.calls[i].a \notin DOMAIN gl.shaders \ gl.flagged

\* gl3_init has run to its end on a driver that accepts everything: 48 GL
\* calls, both programs linked, all three shaders flagged for deletion.
C10_Witness ==
    /\ call.op = "gl3_init"
    /\ ret = GL_TRUE
    /\ Len(gl.calls) = 48
    /\ IsLinked(gl, shaderProgram) /\ IsLinked(gl, texShaderProgram)
    /\ driver.compiles = ShaderSources
    /\ {gl.calls[i].a : i \in 46..48} \subseteq gl.flagged

====
